---- MODULE Spec2Model ----
(***************************************************************************)
(* Model of code2.py: proximity labelling of GPS points against the        *)
(* infrastructure reference points, positional labelling of vibration      *)
(* segments, and the update_vibration click callback.                      *)
(*                                                                         *)
(* Coordinates are positions on a local grid whose step is 15 metres, so   *)
(* the geodesic distance between two grid points is 15 * sqrt(dLat^2 +     *)
(* dLon^2) metres.  Distances are kept squared (integers); the test        *)
(* "distance <= threshold" is the test "distance^2 <= threshold^2".        *)
(* A coordinate cell read from a CSV file is a grid position (>= 0), NaN   *)
(* (a missing value, which dropna removes) or Inf (a non-finite value      *)
(* that is not missing, which dropna keeps).                               *)
(***************************************************************************)
EXTENDS Integers, Sequences, FiniteSets

VARIABLES pc, csv, df_gps, infra_points, df_infra, Label, n_segments,
          segment_labels, gps_fig, fig, calls

vars == <<pc, csv, df_gps, infra_points, df_infra, Label, n_segments,
          segment_labels, gps_fig, fig, calls>>

----------------------------------------------------------------------------
(* Bounds of the model *)

MaxCoord == 1

MaxQ == 2

MaxSeg == 3

MaxInfraRows == 2

MaxRef == 2

----------------------------------------------------------------------------
(* Values *)

NaN == -1

Inf == -2

threshold_meters == 15

Coord == 0..MaxCoord

Thresholds == {10, 15, 25}

InfraOrder_Rev == <<"Turnout", "RailJoint", "Bridge">>

InfraOrder == <<"Bridge", "RailJoint", "Turnout">>

Categories == {"Bridge", "RailJoint", "Turnout"}

GpsLatCells == {0, 2, NaN}

GpsLonCells == {0}

InfraRowCells ==
    {[Latitude |-> 0, Longitude |-> 0], [Latitude |-> 1, Longitude |-> 0],
     [Latitude |-> NaN, Longitude |-> 0], [Latitude |-> Inf, Longitude |-> 0]}

RefRows == [Latitude : Coord, Longitude : Coord, Category : Categories]

SeqsUpTo(S, n) == UNION {[1..m -> S] : m \in 0..n}

Min(S) == CHOOSE x \in S : \A y \in S : x <= y

isna(x) == x = NaN

isfinite(x) == x >= 0

----------------------------------------------------------------------------
(* Pure functions *)

\* geodesic(a, b).meters, squared
geodesic_sq(lat1, lon1, lat2, lon2) ==
    225 * ((lat1 - lat2) * (lat1 - lat2) + (lon1 - lon2) * (lon1 - lon2))

\* df[["Latitude", "Longitude"]].dropna()
dropna(rows) ==
    SelectSeq(rows, LAMBDA r : ~isna(r.Latitude) /\ ~isna(r.Longitude))

\* df["Category"] = label
with_category(rows, label) ==
    [i \in 1..Len(rows) |->
        [Latitude |-> rows[i].Latitude, Longitude |-> rows[i].Longitude,
         Category |-> label]]

\* pd.merge(latitude, longitude, on="timestamp"): inner join on the row number
merge_gps(lats, lons) ==
    [i \in 1..(IF Len(lats) <= Len(lons) THEN Len(lats) ELSE Len(lons)) |->
        [Latitude |-> lats[i], Longitude |-> lons[i], PointIndex |-> i - 1]]

\* pd.concat(infra_points, ignore_index=True)
RECURSIVE concat(_)
concat(frames) ==
    IF frames = << >> THEN << >> ELSE Head(frames) \o concat(Tail(frames))

\* The iterrows loop of classify_gps_point from row i on.  geodesic() on a
\* non-finite coordinate raises ValueError (strict) or yields a NaN distance,
\* for which "distance <= threshold" is False, depending on the library build.
RECURSIVE scan(_, _, _, _, _, _)
scan(lat, lon, infra_df, threshold, strict, i) ==
    IF i > Len(infra_df) THEN [ret |-> "Other", pos |-> 0]
    ELSE LET row == infra_df[i] IN
         IF ~(isfinite(lat) /\ isfinite(lon)
              /\ isfinite(row.Latitude) /\ isfinite(row.Longitude))
         THEN IF strict THEN [ret |-> "ValueError", pos |-> i]
              ELSE scan(lat, lon, infra_df, threshold, strict, i + 1)
         ELSE IF geodesic_sq(lat, lon, row.Latitude, row.Longitude)
                    <= threshold * threshold
              THEN [ret |-> row.Category, pos |-> i]
              ELSE scan(lat, lon, infra_df, threshold, strict, i + 1)

\* The rows of infra_df within the threshold of (lat, lon)
Within(lat, lon, infra_df, threshold) ==
    {i \in 1..Len(infra_df) :
        /\ isfinite(lat) /\ isfinite(lon)
        /\ isfinite(infra_df[i].Latitude) /\ isfinite(infra_df[i].Longitude)
        /\ geodesic_sq(lat, lon, infra_df[i].Latitude, infra_df[i].Longitude)
               <= threshold * threshold}

DistTo(lat, lon, infra_df, i) ==
    geodesic_sq(lat, lon, infra_df[i].Latitude, infra_df[i].Longitude)

\* A mutant: nearest match instead of first match.
classify_nearest(lat, lon, infra_df, threshold, strict) ==
    LET W == Within(lat, lon, infra_df, threshold) IN
    IF W = {} THEN scan(lat, lon, infra_df, threshold, strict, 1)
    ELSE LET i == Min({j \in W : \A k \in W :
                         DistTo(lat, lon, infra_df, j) <= DistTo(lat, lon, infra_df, k)})
         IN  [ret |-> infra_df[i].Category, pos |-> i]

\* A mutant: "distance < threshold", the boundary excluded.
classify_exclusive(lat, lon, infra_df, threshold, strict) ==
    LET W == {i \in Within(lat, lon, infra_df, threshold) :
                 DistTo(lat, lon, infra_df, i) < threshold * threshold} IN
    IF W = {} THEN [ret |-> "Other", pos |-> 0]
    ELSE [ret |-> infra_df[Min(W)].Category, pos |-> Min(W)]

\* A mutant: "distance >= threshold", the comparison reversed.
classify_reversed(lat, lon, infra_df, threshold, strict) ==
    LET W == {i \in 1..Len(infra_df) :
                 DistTo(lat, lon, infra_df, i) >= threshold * threshold} IN
    IF W = {} THEN [ret |-> "Other", pos |-> 0]
    ELSE [ret |-> infra_df[Min(W)].Category, pos |-> Min(W)]

\* A mutant: the first row is read before the loop (infra_df.iloc[0]).
classify_peek(lat, lon, infra_df, threshold, strict) ==
    IF infra_df = << >> THEN [ret |-> "ValueError", pos |-> 0]
    ELSE scan(lat, lon, infra_df, threshold, strict, 1)

classify_gps_point(lat, lon, infra_df, threshold, strict) ==
    scan(lat, lon, infra_df, threshold, strict, 1)

\* A mutant: the slice is dropped, every GPS label is kept.
slice_none(s, n) == s

\* gps_labels[:n]
slice_prefix(s, n) == SubSeq(s, 1, IF n <= Len(s) THEN n ELSE Len(s))

empty_vib_fig == [shown |-> FALSE, index |-> -1, label |-> ""]

----------------------------------------------------------------------------
(* The script *)

Init ==
    /\ pc = "gps"
    /\ csv \in {f \in [Categories -> SeqsUpTo(InfraRowCells, MaxInfraRows)] :
                  Len(f["Bridge"]) + Len(f["RailJoint"]) + Len(f["Turnout"])
                      <= MaxInfraRows}
    /\ df_gps = << >>
    /\ infra_points = << >>
    /\ df_infra = << >>
    /\ Label = << >>
    /\ n_segments = 0
    /\ segment_labels = << >>
    /\ gps_fig = << >>
    /\ fig = empty_vib_fig
    /\ calls = {}

\* lines 36-48: read the latitude and longitude files, merge them
LoadGps ==
    /\ pc = "gps"
    /\ \E lats \in SeqsUpTo(GpsLatCells, MaxQ) \ {<< >>},
          lons \in SeqsUpTo(GpsLonCells, MaxQ) \ {<< >>} :
          df_gps' = merge_gps(lats, lons)
    /\ pc' = "infra"
    /\ UNCHANGED <<csv, infra_points, df_infra, Label, n_segments,
                   segment_labels, gps_fig, fig, calls>>

\* lines 63-68: one iteration of the loop over infra_files
LoadInfra ==
    /\ pc = "infra"
    /\ LET label == InfraOrder[Len(infra_points) + 1]
           df == with_category(dropna(csv[label]), label)
       IN  infra_points' = Append(infra_points, df)
    /\ pc' = IF Len(infra_points) + 1 = Len(InfraOrder) THEN "concat" ELSE "infra"
    /\ UNCHANGED <<csv, df_gps, df_infra, Label, n_segments, segment_labels,
                   gps_fig, fig, calls>>

\* line 70
ConcatInfra ==
    /\ pc = "concat"
    /\ df_infra' = concat(infra_points)
    /\ pc' = "label"
    /\ UNCHANGED <<csv, df_gps, infra_points, Label, n_segments,
                   segment_labels, gps_fig, fig, calls>>

\* A mutant: a matched reference row is consumed by the match.
LabelStep_Consume ==
    /\ pc = "label"
    /\ \E strict \in BOOLEAN :
        LET row == df_gps[Len(Label) + 1]
            r == classify_gps_point(row.Latitude, row.Longitude, df_infra,
                                    threshold_meters, strict)
        IN  /\ calls' = calls \cup
                  {[lat |-> row.Latitude, lon |-> row.Longitude,
                    t |-> threshold_meters, ret |-> r.ret, pos |-> r.pos]}
            /\ df_infra' = IF r.pos > 0 /\ r.ret # "ValueError"
                           THEN SubSeq(df_infra, 1, r.pos - 1)
                                \o SubSeq(df_infra, r.pos + 1, Len(df_infra))
                           ELSE df_infra
            /\ IF r.ret = "ValueError"
               THEN /\ pc' = "crashed"
                    /\ Label' = Label
               ELSE /\ Label' = Append(Label, r.ret)
                    /\ pc' = IF Len(Label) + 1 = Len(df_gps)
                             THEN "segment" ELSE "label"
    /\ UNCHANGED <<csv, df_gps, infra_points, n_segments,
                   segment_labels, gps_fig, fig>>

\* lines 82-84: df_gps.apply calls the lambda on the next row
LabelStep ==
    /\ pc = "label"
    /\ \E strict \in BOOLEAN :
        LET row == df_gps[Len(Label) + 1]
            r == classify_gps_point(row.Latitude, row.Longitude, df_infra,
                                    threshold_meters, strict)
        IN  /\ calls' = calls \cup
                  {[lat |-> row.Latitude, lon |-> row.Longitude,
                    t |-> threshold_meters, ret |-> r.ret, pos |-> r.pos]}
            /\ IF r.ret = "ValueError"
               THEN /\ pc' = "crashed"
                    /\ Label' = Label
               ELSE /\ Label' = Append(Label, r.ret)
                    /\ pc' = IF Len(Label) + 1 = Len(df_gps)
                             THEN "segment" ELSE "label"
    /\ UNCHANGED <<csv, df_gps, infra_points, df_infra, n_segments,
                   segment_labels, gps_fig, fig>>

\* lines 96-106: the vibration data yields n_segments whole segments
Segment ==
    /\ pc = "segment"
    /\ \E n \in 0..MaxSeg : n_segments' = n
    /\ pc' = "seglabels"
    /\ UNCHANGED <<csv, df_gps, infra_points, df_infra, Label,
                   segment_labels, gps_fig, fig, calls>>

\* lines 111-117
LabelSegments ==
    /\ pc = "seglabels"
    /\ segment_labels' = IF df_gps # << >> /\ n_segments > 0
                         THEN slice_prefix(Label, n_segments)
                         ELSE << >>
    /\ pc' = "map"
    /\ UNCHANGED <<csv, df_gps, infra_points, df_infra, Label, n_segments,
                   gps_fig, fig, calls>>

\* lines 122-135: custom_data=["PointIndex", "Label"]
CreateMap ==
    /\ pc = "map"
    /\ gps_fig' = [i \in 1..Len(df_gps) |-> <<df_gps[i].PointIndex, Label[i]>>]
    /\ pc' = "serve"
    /\ UNCHANGED <<csv, df_gps, infra_points, df_infra, Label, n_segments,
                   segment_labels, fig, calls>>

\* A mutant: the callback writes the displayed label back to the GPS frame.
update_vibration_Relabel(clickData) ==
    /\ pc = "serve"
    /\ IF clickData = 0 \/ n_segments = 0
       THEN /\ fig' = empty_vib_fig
            /\ Label' = Label
       ELSE LET index == gps_fig[clickData][1]
                label == gps_fig[clickData][2]
                shown == IF index <= n_segments - 1 THEN index ELSE n_segments - 1
            IN  /\ fig' = [shown |-> TRUE, index |-> shown, label |-> label]
                /\ Label' = [Label EXCEPT ![shown + 1] = label]
    /\ UNCHANGED <<pc, csv, df_gps, infra_points, df_infra, n_segments,
                   segment_labels, gps_fig, calls>>

\* lines 163-181; clickData = 0 is None, k > 0 is a click on the k-th point
update_vibration(clickData) ==
    /\ pc = "serve"
    /\ IF clickData = 0 \/ n_segments = 0
       THEN fig' = empty_vib_fig
       ELSE LET index == gps_fig[clickData][1]
                label == gps_fig[clickData][2]
                shown == IF index <= n_segments - 1 THEN index ELSE n_segments - 1
            IN  fig' = [shown |-> TRUE, index |-> shown, label |-> label]
    /\ UNCHANGED <<pc, csv, df_gps, infra_points, df_infra, Label, n_segments,
                   segment_labels, gps_fig, calls>>

Click == \E clickData \in 0..Len(gps_fig) : update_vibration(clickData)

Next ==
    \/ LoadGps
    \/ LoadInfra
    \/ ConcatInfra
    \/ LabelStep
    \/ Segment
    \/ LabelSegments
    \/ CreateMap
    \/ Click

Spec == Init /\ [][Next]_vars

----------------------------------------------------------------------------
(* classify_gps_point as a function of its arguments: one query point, any   *)
(* ordered reference set, every threshold.  The query point lies on the     *)
(* line Longitude = 0 and the reference rows anywhere on the grid, which    *)
(* gives every displacement up to the sign of its longitude part; all       *)
(* coordinates are finite, so geodesic() never raises here.                 *)

ClassifyInit ==
    /\ pc = "classify"
    /\ csv = [c \in Categories |-> << >>]
    /\ df_gps \in {<<[Latitude |-> lat, Longitude |-> 0, PointIndex |-> 0]>> :
                     lat \in Coord}
    /\ infra_points = << >>
    /\ df_infra \in SeqsUpTo(RefRows, MaxRef)
    /\ Label = << >>
    /\ n_segments = 0
    /\ segment_labels = << >>
    /\ gps_fig = << >>
    /\ fig = empty_vib_fig
    /\ calls = {}

\* classify_gps_point(lat, lon, infra_df, threshold_meters=t)
Classify(t) ==
    /\ pc = "classify"
    /\ \A c \in calls : c.t # t
    /\ LET row == df_gps[1]
           r == classify_gps_point(row.Latitude, row.Longitude, df_infra, t, TRUE)
       IN  calls' = calls \cup
               {[lat |-> row.Latitude, lon |-> row.Longitude,
                 t |-> t, ret |-> r.ret, pos |-> r.pos]}
    /\ UNCHANGED <<pc, csv, df_gps, infra_points, df_infra, Label, n_segments,
                   segment_labels, gps_fig, fig>>

ClassifyNext == \E t \in Thresholds : Classify(t)

SpecClassify == ClassifyInit /\ [][ClassifyNext]_vars

----------------------------------------------------------------------------
(* Properties *)

CatRank(c) == CHOOSE k \in 1..3 : <<"Bridge", "RailJoint", "Turnout">>[k] = c

AfterLoad == pc \in {"label", "segment", "seglabels", "map", "serve", "crashed"}

AfterLabel == pc \in {"segment", "seglabels", "map", "serve"}

\* C1: whenever some reference row is within the threshold (boundary
\* included), the call returns the Category of the first such row in
\* iteration order, also when a later row within the threshold is closer.
C1_FirstMatch ==
    \A c \in calls :
        LET W == Within(c.lat, c.lon, df_infra, c.t) IN
        W # {} => c.ret = df_infra[Min(W)].Category

C1_Witness ==
    \E c \in calls :
        LET W == Within(c.lat, c.lon, df_infra, c.t) IN
        /\ W # {}
        /\ \E j \in W :
              /\ j > Min(W)
              /\ DistTo(c.lat, c.lon, df_infra, j) < DistTo(c.lat, c.lon, df_infra, Min(W))
              /\ df_infra[Min(W)].Category = "Bridge"
              /\ df_infra[j].Category = "Turnout"
        /\ c.ret = "Bridge"

\* C2: the call returns "Other" exactly when no reference row is within the
\* threshold, and any other return value is the Category of a row of R.
C2_OtherIffNone ==
    \A c \in calls :
        /\ (c.ret = "Other") <=> (Within(c.lat, c.lon, df_infra, c.t) = {})
        /\ c.ret # "Other" =>
              \E i \in 1..Len(df_infra) : df_infra[i].Category = c.ret

C2_Witness ==
    /\ df_infra # << >>
    /\ \E c1, c2 \in calls :
          /\ c1.ret = "Other"
          /\ c2.ret \in Categories
          /\ c2.pos > 0
          /\ DistTo(c2.lat, c2.lon, df_infra, c2.pos) = c2.t * c2.t

\* C3: with an empty reference set the labelling pass does not fail and labels
\* every query point "Other", at every threshold.
C3_EmptyReference ==
    (AfterLoad /\ df_infra = << >>) =>
        /\ pc # "crashed"
        /\ \A k \in 1..Len(Label) : Label[k] = "Other"
        /\ AfterLabel => Len(Label) = Len(df_gps)
        /\ \A k \in 1..Len(df_gps), t \in Thresholds, strict \in BOOLEAN :
              classify_gps_point(df_gps[k].Latitude, df_gps[k].Longitude,
                                 df_infra, t, strict).ret = "Other"

C3_Witness ==
    /\ pc = "serve"
    /\ df_infra = << >>
    /\ csv["Bridge"] # << >>
    /\ Len(df_gps) >= 2
    /\ \E k \in 1..Len(df_gps) : ~isfinite(df_gps[k].Latitude)
    /\ \A k \in 1..Len(df_gps) : Label[k] = "Other"

\* C4: for thresholds t1 <= t2, a match at position i at t1 means a match at
\* a position j <= i at t2, so never "Other" at t2.
C4_Monotone ==
    \A c1, c2 \in calls :
        (c1.t <= c2.t /\ c1.pos > 0) =>
            /\ c2.pos \in 1..c1.pos
            /\ c2.ret # "Other"

C4_Witness ==
    \E c1, c2 \in calls :
        /\ c1.t < c2.t
        /\ c1.pos > 0
        /\ c2.pos > 0
        /\ c2.pos < c1.pos
        /\ c1.ret # c2.ret

\* C5: with Q >= 1 labelled points and S >= 1 segments, segment_labels is the
\* first min(Q, S) point labels in order; segments beyond Q get no label.
C5_SegmentPairing ==
    (pc \in {"map", "serve"} /\ Len(df_gps) >= 1 /\ n_segments >= 1) =>
        /\ Len(segment_labels) =
              (IF Len(df_gps) <= n_segments THEN Len(df_gps) ELSE n_segments)
        /\ \A i \in 1..Len(segment_labels) : segment_labels[i] = Label[i]

C5_Witness ==
    /\ pc = "serve"
    /\ Len(df_gps) = 2
    /\ n_segments > Len(df_gps)
    /\ Len(segment_labels) = 2
    /\ segment_labels[1] # segment_labels[2]

\* C6: every query point handed to classify_gps_point, and every reference
\* row it scans, has a finite latitude and longitude.
C6_CleanInput ==
    pc = "label" =>
        /\ isfinite(df_gps[Len(Label) + 1].Latitude)
        /\ isfinite(df_gps[Len(Label) + 1].Longitude)
        /\ \A i \in 1..Len(df_infra) :
              isfinite(df_infra[i].Latitude) /\ isfinite(df_infra[i].Longitude)

\* C7: points are labelled one at a time in sequence order, a label once
\* given never changes, and once the server runs neither the labels nor
\* segment_labels change.
C7_LabelledOnce ==
    [][/\ Len(Label') >= Len(Label)
       /\ Len(Label') <= Len(Label) + 1
       /\ \A k \in 1..Len(Label) : Label'[k] = Label[k]
       /\ pc \in {"map", "serve"} => segment_labels' = segment_labels
       /\ AfterLabel => Label' = Label]_vars

C7_Witness ==
    /\ pc = "serve"
    /\ fig.shown
    /\ Len(Label) = 2
    /\ Label[1] # Label[2]
    /\ fig.label # Label[fig.index + 1]

\* C8: a labelling step leaves the reference set, contents and order, as it
\* was, whether it returns a category or "Other".
C8_ReferenceUnchanged ==
    [][pc = "label" => df_infra' = df_infra]_vars

C8_Witness ==
    /\ pc = "segment"
    /\ Len(df_infra) >= 2
    /\ \E k \in 1..Len(Label) : Label[k] = "Other"
    /\ \E k \in 1..Len(Label) : Label[k] \in Categories

\* C9: a figure shown by update_vibration shows a segment index k with
\* 0 <= k < number of segments, with the label of the query point k.
C9_ShownLabelIsSegmentLabel ==
    fig.shown =>
        /\ 0 <= fig.index
        /\ fig.index < n_segments
        /\ fig.label = Label[fig.index + 1]

\* C10: the scanned reference set holds the Bridge rows, then the RailJoint
\* rows, then the Turnout rows, each in file order; so a point within the
\* threshold of a Bridge row is labelled Bridge, and a point is labelled
\* Turnout only if no Bridge and no RailJoint row is within the threshold.
C10_CategoryOrder ==
    AfterLoad =>
        /\ \A i, j \in 1..Len(df_infra) :
              i < j => CatRank(df_infra[i].Category) <= CatRank(df_infra[j].Category)
        /\ \A c \in Categories :
              SelectSeq(df_infra, LAMBDA r : r.Category = c)
                  = with_category(dropna(csv[c]), c)
        /\ \A k \in 1..Len(Label) :
              LET W == Within(df_gps[k].Latitude, df_gps[k].Longitude,
                              df_infra, threshold_meters) IN
              /\ (\E i \in W : df_infra[i].Category = "Bridge") => Label[k] = "Bridge"
              /\ Label[k] = "Turnout" =>
                    \A i \in W : df_infra[i].Category = "Turnout"

C10_Witness ==
    /\ pc = "serve"
    /\ \E k \in 1..Len(Label) :
          LET W == Within(df_gps[k].Latitude, df_gps[k].Longitude,
                          df_infra, threshold_meters) IN
          /\ Label[k] = "Bridge"
          /\ \E i, j \in W :
                /\ df_infra[i].Category = "Bridge"
                /\ df_infra[j].Category # "Bridge"
                /\ \A b \in W : df_infra[b].Category = "Bridge" =>
                      DistTo(df_gps[k].Latitude, df_gps[k].Longitude, df_infra, j)
                        < DistTo(df_gps[k].Latitude, df_gps[k].Longitude, df_infra, b)

====
